---- MODULE Spec2Model ----
(***************************************************************************)
(* Model of extract_comet_history.py: the extraction of browser-history    *)
(* rows into HistoryEntry objects, their categorisation, the summary, the  *)
(* token-bounded chunking and the control flow of main().                  *)
(*                                                                         *)
(* Strings whose characters the program inspects (urls, titles, domains,   *)
(* the --chunk-size argument) are sequences of characters, so that split,   *)
(* strip, lower, upper, startswith and "in" are computed.                  *)
(* Strings the program only carries or prints (category labels, search     *)
(* terms, referrers, file names) are TLA+ strings.                         *)
(***************************************************************************)
EXTENDS Integers, Sequences, FiniteSets, TLC

VARIABLES
    args_chunk_size,    \* args.chunk_size: None or a string
    db_state,           \* the file at args.db_path: "missing", "error" or "ok"
    urls_data,          \* rows the urls query returns
    visits_data,        \* rows the visits query returns
    search_terms_data,  \* rows the keyword_search_terms query returns
    history_entries,    \* HistoryExtractor.history_entries
    summary,            \* main's summary (a dict)
    max_tokens,         \* main's max_tokens
    chunks,             \* main's chunks: sequence of <<entries, metadata>>
    pc,                 \* position in main()
    exit_code,          \* NotExited, or the status passed to sys.exit / 0 at the end
    exit_reason,        \* which exit of main was taken
    db_read,            \* extract_data has opened and queried the database
    attempted,          \* output artifacts whose write was started
    failed,             \* output artifacts whose write raised
    cat_url,            \* argument of a direct _categorize_url/_extract_domain call
    cat_title,          \* argument of a direct _categorize_url call
    cat_result,         \* its return value
    dom_result          \* return value of _extract_domain(cat_url)

vars == <<args_chunk_size, db_state, urls_data, visits_data, search_terms_data,
          history_entries, summary, max_tokens, chunks, pc,
          exit_code, exit_reason, db_read, attempted, failed,
          cat_url, cat_title, cat_result, dom_result>>

-----------------------------------------------------------------------------
(* Python values *)

\* Python's None where a string may stand: no string has a 4-character element.
None == <<"None">>

Max(a, b) == IF a >= b THEN a ELSE b
Min(a, b) == IF a <= b THEN a ELSE b

RECURSIVE SumSeq(_)
SumSeq(seq) == IF seq = << >> THEN 0 ELSE Head(seq) + SumSeq(Tail(seq))

-----------------------------------------------------------------------------
(* str methods *)

\* A character is a one-character string where TLA+ can write it (printable
\* ASCII, "\t", "\n", "\r", "\f") and the string "U+" followed by its code point in
\* hexadecimal otherwise: "U+00A0" is the no-break space.  The strings of the
\* model are over ASCII, the white space and the decimal digits of Unicode, and
\* the characters whose case mapping yields an ASCII character.

UpperChars == <<"A", "B", "C", "D", "E", "F", "G", "H", "I", "J", "K", "L", "M",
                "N", "O", "P", "Q", "R", "S", "T", "U", "V", "W", "X", "Y", "Z">>
LowerChars == <<"a", "b", "c", "d", "e", "f", "g", "h", "i", "j", "k", "l", "m",
                "n", "o", "p", "q", "r", "s", "t", "u", "v", "w", "x", "y", "z">>
Digits == <<"0", "1", "2", "3", "4", "5", "6", "7", "8", "9">>

\* The characters str.isspace() holds of: what str.strip() removes and what \s
\* matches in a str pattern.
Whitespace ==
    { "\t", "\n", "U+000B", "\f", "\r", "U+001C", "U+001D", "U+001E",
      "U+001F", " ", "U+0085", "U+00A0", "U+1680", "U+2000", "U+2001",
      "U+2002", "U+2003", "U+2004", "U+2005", "U+2006", "U+2007", "U+2008",
      "U+2009", "U+200A", "U+2028", "U+2029", "U+202F", "U+205F", "U+3000" }

\* The decimal digits of the scripts of Unicode other than ASCII, one tuple per
\* script, from the digit zero to the digit nine: what \d matches in a str pattern
\* and float() reads, besides Digits.
UnicodeDigits ==
    << <<"U+0660", "U+0661", "U+0662", "U+0663", "U+0664", "U+0665", "U+0666", "U+0667", "U+0668", "U+0669">>,
       <<"U+06F0", "U+06F1", "U+06F2", "U+06F3", "U+06F4", "U+06F5", "U+06F6", "U+06F7", "U+06F8", "U+06F9">>,
       <<"U+07C0", "U+07C1", "U+07C2", "U+07C3", "U+07C4", "U+07C5", "U+07C6", "U+07C7", "U+07C8", "U+07C9">>,
       <<"U+0966", "U+0967", "U+0968", "U+0969", "U+096A", "U+096B", "U+096C", "U+096D", "U+096E", "U+096F">>,
       <<"U+09E6", "U+09E7", "U+09E8", "U+09E9", "U+09EA", "U+09EB", "U+09EC", "U+09ED", "U+09EE", "U+09EF">>,
       <<"U+0A66", "U+0A67", "U+0A68", "U+0A69", "U+0A6A", "U+0A6B", "U+0A6C", "U+0A6D", "U+0A6E", "U+0A6F">>,
       <<"U+0AE6", "U+0AE7", "U+0AE8", "U+0AE9", "U+0AEA", "U+0AEB", "U+0AEC", "U+0AED", "U+0AEE", "U+0AEF">>,
       <<"U+0B66", "U+0B67", "U+0B68", "U+0B69", "U+0B6A", "U+0B6B", "U+0B6C", "U+0B6D", "U+0B6E", "U+0B6F">>,
       <<"U+0BE6", "U+0BE7", "U+0BE8", "U+0BE9", "U+0BEA", "U+0BEB", "U+0BEC", "U+0BED", "U+0BEE", "U+0BEF">>,
       <<"U+0C66", "U+0C67", "U+0C68", "U+0C69", "U+0C6A", "U+0C6B", "U+0C6C", "U+0C6D", "U+0C6E", "U+0C6F">>,
       <<"U+0CE6", "U+0CE7", "U+0CE8", "U+0CE9", "U+0CEA", "U+0CEB", "U+0CEC", "U+0CED", "U+0CEE", "U+0CEF">>,
       <<"U+0D66", "U+0D67", "U+0D68", "U+0D69", "U+0D6A", "U+0D6B", "U+0D6C", "U+0D6D", "U+0D6E", "U+0D6F">>,
       <<"U+0DE6", "U+0DE7", "U+0DE8", "U+0DE9", "U+0DEA", "U+0DEB", "U+0DEC", "U+0DED", "U+0DEE", "U+0DEF">>,
       <<"U+0E50", "U+0E51", "U+0E52", "U+0E53", "U+0E54", "U+0E55", "U+0E56", "U+0E57", "U+0E58", "U+0E59">>,
       <<"U+0ED0", "U+0ED1", "U+0ED2", "U+0ED3", "U+0ED4", "U+0ED5", "U+0ED6", "U+0ED7", "U+0ED8", "U+0ED9">>,
       <<"U+0F20", "U+0F21", "U+0F22", "U+0F23", "U+0F24", "U+0F25", "U+0F26", "U+0F27", "U+0F28", "U+0F29">>,
       <<"U+1040", "U+1041", "U+1042", "U+1043", "U+1044", "U+1045", "U+1046", "U+1047", "U+1048", "U+1049">>,
       <<"U+1090", "U+1091", "U+1092", "U+1093", "U+1094", "U+1095", "U+1096", "U+1097", "U+1098", "U+1099">>,
       <<"U+17E0", "U+17E1", "U+17E2", "U+17E3", "U+17E4", "U+17E5", "U+17E6", "U+17E7", "U+17E8", "U+17E9">>,
       <<"U+1810", "U+1811", "U+1812", "U+1813", "U+1814", "U+1815", "U+1816", "U+1817", "U+1818", "U+1819">>,
       <<"U+1946", "U+1947", "U+1948", "U+1949", "U+194A", "U+194B", "U+194C", "U+194D", "U+194E", "U+194F">>,
       <<"U+19D0", "U+19D1", "U+19D2", "U+19D3", "U+19D4", "U+19D5", "U+19D6", "U+19D7", "U+19D8", "U+19D9">>,
       <<"U+1A80", "U+1A81", "U+1A82", "U+1A83", "U+1A84", "U+1A85", "U+1A86", "U+1A87", "U+1A88", "U+1A89">>,
       <<"U+1A90", "U+1A91", "U+1A92", "U+1A93", "U+1A94", "U+1A95", "U+1A96", "U+1A97", "U+1A98", "U+1A99">>,
       <<"U+1B50", "U+1B51", "U+1B52", "U+1B53", "U+1B54", "U+1B55", "U+1B56", "U+1B57", "U+1B58", "U+1B59">>,
       <<"U+1BB0", "U+1BB1", "U+1BB2", "U+1BB3", "U+1BB4", "U+1BB5", "U+1BB6", "U+1BB7", "U+1BB8", "U+1BB9">>,
       <<"U+1C40", "U+1C41", "U+1C42", "U+1C43", "U+1C44", "U+1C45", "U+1C46", "U+1C47", "U+1C48", "U+1C49">>,
       <<"U+1C50", "U+1C51", "U+1C52", "U+1C53", "U+1C54", "U+1C55", "U+1C56", "U+1C57", "U+1C58", "U+1C59">>,
       <<"U+A620", "U+A621", "U+A622", "U+A623", "U+A624", "U+A625", "U+A626", "U+A627", "U+A628", "U+A629">>,
       <<"U+A8D0", "U+A8D1", "U+A8D2", "U+A8D3", "U+A8D4", "U+A8D5", "U+A8D6", "U+A8D7", "U+A8D8", "U+A8D9">>,
       <<"U+A900", "U+A901", "U+A902", "U+A903", "U+A904", "U+A905", "U+A906", "U+A907", "U+A908", "U+A909">>,
       <<"U+A9D0", "U+A9D1", "U+A9D2", "U+A9D3", "U+A9D4", "U+A9D5", "U+A9D6", "U+A9D7", "U+A9D8", "U+A9D9">>,
       <<"U+A9F0", "U+A9F1", "U+A9F2", "U+A9F3", "U+A9F4", "U+A9F5", "U+A9F6", "U+A9F7", "U+A9F8", "U+A9F9">>,
       <<"U+AA50", "U+AA51", "U+AA52", "U+AA53", "U+AA54", "U+AA55", "U+AA56", "U+AA57", "U+AA58", "U+AA59">>,
       <<"U+ABF0", "U+ABF1", "U+ABF2", "U+ABF3", "U+ABF4", "U+ABF5", "U+ABF6", "U+ABF7", "U+ABF8", "U+ABF9">>,
       <<"U+FF10", "U+FF11", "U+FF12", "U+FF13", "U+FF14", "U+FF15", "U+FF16", "U+FF17", "U+FF18", "U+FF19">>,
       <<"U+104A0", "U+104A1", "U+104A2", "U+104A3", "U+104A4", "U+104A5", "U+104A6", "U+104A7", "U+104A8", "U+104A9">>,
       <<"U+10D30", "U+10D31", "U+10D32", "U+10D33", "U+10D34", "U+10D35", "U+10D36", "U+10D37", "U+10D38", "U+10D39">>,
       <<"U+11066", "U+11067", "U+11068", "U+11069", "U+1106A", "U+1106B", "U+1106C", "U+1106D", "U+1106E", "U+1106F">>,
       <<"U+110F0", "U+110F1", "U+110F2", "U+110F3", "U+110F4", "U+110F5", "U+110F6", "U+110F7", "U+110F8", "U+110F9">>,
       <<"U+11136", "U+11137", "U+11138", "U+11139", "U+1113A", "U+1113B", "U+1113C", "U+1113D", "U+1113E", "U+1113F">>,
       <<"U+111D0", "U+111D1", "U+111D2", "U+111D3", "U+111D4", "U+111D5", "U+111D6", "U+111D7", "U+111D8", "U+111D9">>,
       <<"U+112F0", "U+112F1", "U+112F2", "U+112F3", "U+112F4", "U+112F5", "U+112F6", "U+112F7", "U+112F8", "U+112F9">>,
       <<"U+11450", "U+11451", "U+11452", "U+11453", "U+11454", "U+11455", "U+11456", "U+11457", "U+11458", "U+11459">>,
       <<"U+114D0", "U+114D1", "U+114D2", "U+114D3", "U+114D4", "U+114D5", "U+114D6", "U+114D7", "U+114D8", "U+114D9">>,
       <<"U+11650", "U+11651", "U+11652", "U+11653", "U+11654", "U+11655", "U+11656", "U+11657", "U+11658", "U+11659">>,
       <<"U+116C0", "U+116C1", "U+116C2", "U+116C3", "U+116C4", "U+116C5", "U+116C6", "U+116C7", "U+116C8", "U+116C9">>,
       <<"U+11730", "U+11731", "U+11732", "U+11733", "U+11734", "U+11735", "U+11736", "U+11737", "U+11738", "U+11739">>,
       <<"U+118E0", "U+118E1", "U+118E2", "U+118E3", "U+118E4", "U+118E5", "U+118E6", "U+118E7", "U+118E8", "U+118E9">>,
       <<"U+11950", "U+11951", "U+11952", "U+11953", "U+11954", "U+11955", "U+11956", "U+11957", "U+11958", "U+11959">>,
       <<"U+11C50", "U+11C51", "U+11C52", "U+11C53", "U+11C54", "U+11C55", "U+11C56", "U+11C57", "U+11C58", "U+11C59">>,
       <<"U+11D50", "U+11D51", "U+11D52", "U+11D53", "U+11D54", "U+11D55", "U+11D56", "U+11D57", "U+11D58", "U+11D59">>,
       <<"U+11DA0", "U+11DA1", "U+11DA2", "U+11DA3", "U+11DA4", "U+11DA5", "U+11DA6", "U+11DA7", "U+11DA8", "U+11DA9">>,
       <<"U+16A60", "U+16A61", "U+16A62", "U+16A63", "U+16A64", "U+16A65", "U+16A66", "U+16A67", "U+16A68", "U+16A69">>,
       <<"U+16AC0", "U+16AC1", "U+16AC2", "U+16AC3", "U+16AC4", "U+16AC5", "U+16AC6", "U+16AC7", "U+16AC8", "U+16AC9">>,
       <<"U+16B50", "U+16B51", "U+16B52", "U+16B53", "U+16B54", "U+16B55", "U+16B56", "U+16B57", "U+16B58", "U+16B59">>,
       <<"U+1D7CE", "U+1D7CF", "U+1D7D0", "U+1D7D1", "U+1D7D2", "U+1D7D3", "U+1D7D4", "U+1D7D5", "U+1D7D6", "U+1D7D7">>,
       <<"U+1D7D8", "U+1D7D9", "U+1D7DA", "U+1D7DB", "U+1D7DC", "U+1D7DD", "U+1D7DE", "U+1D7DF", "U+1D7E0", "U+1D7E1">>,
       <<"U+1D7E2", "U+1D7E3", "U+1D7E4", "U+1D7E5", "U+1D7E6", "U+1D7E7", "U+1D7E8", "U+1D7E9", "U+1D7EA", "U+1D7EB">>,
       <<"U+1D7EC", "U+1D7ED", "U+1D7EE", "U+1D7EF", "U+1D7F0", "U+1D7F1", "U+1D7F2", "U+1D7F3", "U+1D7F4", "U+1D7F5">>,
       <<"U+1D7F6", "U+1D7F7", "U+1D7F8", "U+1D7F9", "U+1D7FA", "U+1D7FB", "U+1D7FC", "U+1D7FD", "U+1D7FE", "U+1D7FF">>,
       <<"U+1E140", "U+1E141", "U+1E142", "U+1E143", "U+1E144", "U+1E145", "U+1E146", "U+1E147", "U+1E148", "U+1E149">>,
       <<"U+1E2F0", "U+1E2F1", "U+1E2F2", "U+1E2F3", "U+1E2F4", "U+1E2F5", "U+1E2F6", "U+1E2F7", "U+1E2F8", "U+1E2F9">>,
       <<"U+1E950", "U+1E951", "U+1E952", "U+1E953", "U+1E954", "U+1E955", "U+1E956", "U+1E957", "U+1E958", "U+1E959">>,
       <<"U+1FBF0", "U+1FBF1", "U+1FBF2", "U+1FBF3", "U+1FBF4", "U+1FBF5", "U+1FBF6", "U+1FBF7", "U+1FBF8", "U+1FBF9">> >>

IndexIn(c, alphabet) ==
    IF \E i \in 1..Len(alphabet) : alphabet[i] = c
    THEN CHOOSE i \in 1..Len(alphabet) : alphabet[i] = c
    ELSE 0

\* The value of the decimal digit c, or -1 when c is no decimal digit.
DigitValue(c) ==
    IF IndexIn(c, Digits) > 0 THEN IndexIn(c, Digits) - 1
    ELSE IF \E f \in 1..Len(UnicodeDigits) : IndexIn(c, UnicodeDigits[f]) > 0
         THEN IndexIn(c, UnicodeDigits[CHOOSE f \in 1..Len(UnicodeDigits) :
                                           IndexIn(c, UnicodeDigits[f]) > 0]) - 1
    ELSE 0 - 1

\* The concatenation of a sequence of strings.
RECURSIVE Flatten(_)
Flatten(ss) ==
    IF ss = << >> THEN << >>
    ELSE IF Len(ss) = 1 THEN ss[1]
    ELSE LET half == Len(ss) \div 2
         IN  Flatten(SubSeq(ss, 1, half)) \o Flatten(SubSeq(ss, half + 1, Len(ss)))

\* The characters outside ASCII that str.lower() maps to a string with an ASCII
\* character in it.
LowerSpecial ==
    ("U+0130" :> <<"i", "U+0307">>)
    @@ ("U+212A" :> <<"k">>)

\* The characters outside ASCII that str.upper() maps to a string with an ASCII
\* character in it.
UpperSpecial ==
    ("U+00DF" :> <<"S", "S">>)
    @@ ("U+0131" :> <<"I">>)
    @@ ("U+0149" :> <<"U+02BC", "N">>)
    @@ ("U+017F" :> <<"S">>)
    @@ ("U+01F0" :> <<"J", "U+030C">>)
    @@ ("U+1E96" :> <<"H", "U+0331">>)
    @@ ("U+1E97" :> <<"T", "U+0308">>)
    @@ ("U+1E98" :> <<"W", "U+030A">>)
    @@ ("U+1E99" :> <<"Y", "U+030A">>)
    @@ ("U+1E9A" :> <<"A", "U+02BE">>)
    @@ ("U+FB00" :> <<"F", "F">>)
    @@ ("U+FB01" :> <<"F", "I">>)
    @@ ("U+FB02" :> <<"F", "L">>)
    @@ ("U+FB03" :> <<"F", "F", "I">>)
    @@ ("U+FB04" :> <<"F", "F", "L">>)
    @@ ("U+FB05" :> <<"S", "T">>)
    @@ ("U+FB06" :> <<"S", "T">>)

\* str.lower()
Lower(s) ==
    Flatten([i \in 1..Len(s) |->
        IF IndexIn(s[i], UpperChars) > 0 THEN <<LowerChars[IndexIn(s[i], UpperChars)]>>
        ELSE IF s[i] \in DOMAIN LowerSpecial THEN LowerSpecial[s[i]]
        ELSE <<s[i]>>])

\* str.upper()
Upper(s) ==
    Flatten([i \in 1..Len(s) |->
        IF IndexIn(s[i], LowerChars) > 0 THEN <<UpperChars[IndexIn(s[i], LowerChars)]>>
        ELSE IF s[i] \in DOMAIN UpperSpecial THEN UpperSpecial[s[i]]
        ELSE <<s[i]>>])

\* str.strip()
Strip(s) ==
    LET keep == {i \in 1..Len(s) : s[i] \notin Whitespace}
    IN  IF keep = {} THEN << >>
        ELSE LET lo == CHOOSE i \in keep : \A j \in keep : i <= j
                 hi == CHOOSE i \in keep : \A j \in keep : i >= j
             IN  SubSeq(s, lo, hi)

\* str.startswith(prefix)
StartsWith(s, prefix) ==
    Len(s) >= Len(prefix) /\ SubSeq(s, 1, Len(prefix)) = prefix

\* keyword in s
Contains(s, keyword) ==
    \E i \in 0..(Len(s) - Len(keyword)) : SubSeq(s, i + 1, i + Len(keyword)) = keyword

\* s.split(sep) for a one-character sep: always at least one segment
RECURSIVE Split(_, _)
Split(s, sep) ==
    IF \A i \in 1..Len(s) : s[i] # sep THEN <<s>>
    ELSE LET k == CHOOSE i \in 1..Len(s) :
                      s[i] = sep /\ \A j \in 1..(i - 1) : s[j] # sep
         IN  <<SubSeq(s, 1, k - 1)>> \o Split(SubSeq(s, k + 1, Len(s)), sep)

-----------------------------------------------------------------------------
(* float: the arithmetic of parse_chunk_size *)

\* float(number) * 1000 is computed in binary floating point, with a significand
\* of 53 bits, so that int(float("4.1") * 1000000) is 4099999.  The integers of
\* this arithmetic are longer than the integers of TLC: a natural number is the
\* sequence of its digits in base Base, the lowest first and the highest not 0
\* (zero is << >>).  The operations are functions, which take values; those that
\* run along the digits halve the run, which keeps the recursion shallow.
Base == 2^15
Big == Seq(Nat)

\* The digits of the natural number n.
BigOf[n \in Nat] == IF n = 0 THEN << >> ELSE <<n % Base>> \o BigOf[n \div Base]

\* The natural number of the digits a.
IntOf[a \in Big] == IF a = << >> THEN 0 ELSE a[1] + Base * IntOf[Tail(a)]

\* a without its leading zeros.
BigNorm[a \in Big] ==
    SubSeq(a, 1, CHOOSE k \in 0..Len(a) :
                    /\ k = 0 \/ a[k] # 0
                    /\ \A j \in (k + 1)..Len(a) : a[j] = 0)

DigitAt(a, i) == IF i <= Len(a) THEN a[i] ELSE 0
Front(a) == SubSeq(a, 1, Len(a) - 1)
Last(a) == a[Len(a)]

\* acc holds the digits below from of a + b, and the carry after them: the
\* digits up to to of a + b, and the carry after them.
BigAddRange[a \in Big, b \in Big, from \in Nat, to \in Nat, acc \in Big] ==
    IF from > to THEN acc
    ELSE IF from = to
    THEN Front(acc) \o <<(DigitAt(a, from) + DigitAt(b, from) + Last(acc)) % Base,
                         (DigitAt(a, from) + DigitAt(b, from) + Last(acc)) \div Base>>
    ELSE BigAddRange[a, b, (from + to) \div 2 + 1, to,
                     BigAddRange[a, b, from, (from + to) \div 2, acc]]

\* a + b
BigAdd[a \in Big, b \in Big] == BigNorm[BigAddRange[a, b, 1, Max(Len(a), Len(b)), <<0>>]]

\* acc holds the digits below from of a - b, and the borrow after them: the
\* digits up to to of a - b, and the borrow after them.
BigSubRange[a \in Big, b \in Big, from \in Nat, to \in Nat, acc \in Big] ==
    IF from > to THEN acc
    ELSE IF from = to
    THEN Front(acc) \o <<(DigitAt(a, from) - DigitAt(b, from) - Last(acc) + Base) % Base,
                         IF DigitAt(a, from) - DigitAt(b, from) - Last(acc) < 0 THEN 1 ELSE 0>>
    ELSE BigSubRange[a, b, (from + to) \div 2 + 1, to,
                     BigSubRange[a, b, from, (from + to) \div 2, acc]]

\* a - b, for a >= b
BigSub[a \in Big, b \in Big] == BigNorm[BigSubRange[a, b, 1, Len(a), <<0>>]]

\* a < b
BigLess[a \in Big, b \in Big] ==
    \/ Len(a) < Len(b)
    \/ /\ Len(a) = Len(b)
       /\ \E i \in 1..Len(a) :
             /\ a[i] < b[i]
             /\ \A j \in (i + 1)..Len(a) : a[j] = b[j]

\* acc holds the digits below from of a * k, and the carry after them: the
\* digits up to to of a * k, and the carry after them.
BigTimesDigitRange[a \in Big, k \in Nat, from \in Nat, to \in Nat, acc \in Big] ==
    IF from > to THEN acc
    ELSE IF from = to
    THEN Front(acc) \o <<(a[from] * k + Last(acc)) % Base, (a[from] * k + Last(acc)) \div Base>>
    ELSE BigTimesDigitRange[a, k, (from + to) \div 2 + 1, to,
                            BigTimesDigitRange[a, k, from, (from + to) \div 2, acc]]

\* a * k, for a digit k
BigTimesDigit[a \in Big, k \in Nat] == BigNorm[BigTimesDigitRange[a, k, 1, Len(a), <<0>>]]

\* a * Base^n
BigShiftDigits[a \in Big, n \in Nat] ==
    IF a = << >> THEN << >> ELSE [i \in 1..n |-> 0] \o a

\* a * b: a times the lower half of the digits of b, plus a times the upper half.
BigMul[a \in Big, b \in Big] ==
    IF b = << >> THEN << >>
    ELSE IF Len(b) = 1 THEN BigTimesDigit[a, b[1]]
    ELSE BigAdd[BigMul[a, SubSeq(b, 1, Len(b) \div 2)],
                BigShiftDigits[BigMul[a, SubSeq(b, Len(b) \div 2 + 1, Len(b))], Len(b) \div 2]]

\* The number of bits of the digit k, and of a digit at most.
DigitBitLen[k \in Nat] == IF k = 0 THEN 0 ELSE 1 + DigitBitLen[k \div 2]
DigitBits == DigitBitLen[Base - 1]

\* The number of bits of a.
BigBitLen[a \in Big] ==
    IF a = << >> THEN 0 ELSE DigitBits * (Len(a) - 1) + DigitBitLen[a[Len(a)]]

\* a * 2^k
BigShiftLeft[a \in Big, k \in Nat] ==
    BigShiftDigits[BigTimesDigit[a, 2^(k % DigitBits)], k \div DigitBits]

\* The greatest q of from..(from + 2 * bit - 1) with d * q <= n, where
\* d * from <= n and bit is a power of 2 or 0: the bits of q, the highest first.
QuotientFrom[n \in Big, d \in Big, from \in Nat, bit \in Nat] ==
    IF bit = 0 THEN from
    ELSE IF BigLess[n, BigTimesDigit[d, from + bit]]
         THEN QuotientFrom[n, d, from, bit \div 2]
         ELSE QuotientFrom[n, d, from + bit, bit \div 2]

\* The greatest digit q with d * q <= n, for n < d * Base.
QuotientDigit[n \in Big, d \in Big] == QuotientFrom[n, d, 0, Base \div 2]

\* The quotient and the remainder of a division.
BigQuotRem == [q : Big, r : Big]

\* digit put below the digits q, and the remainder of rem by d, for the quotient
\* digit of rem by d.
BigDivDigit[rem \in Big, digit \in Nat, q \in Big, d \in Big] ==
    [q |-> BigNorm[<<digit>> \o q], r |-> BigSub[rem, BigTimesDigit[d, digit]]]

\* One step of the long division by d: the quotient and the remainder of the
\* digits rem, for rem < d * Base, the quotient put below the digits high_q.
BigDivStep[rem \in Big, high_q \in Big, d \in Big] ==
    BigDivDigit[rem, QuotientDigit[rem, d], high_q, d]

\* The quotient and the remainder of the digits whose lowest is low, given
\* those of the digits above it.
BigDivLow[low \in Nat, high \in BigQuotRem, d \in Big] ==
    BigDivStep[BigNorm[<<low>> \o high.r], high.q, d]

\* Long division by d, the highest digit first: the quotient and the remainder
\* of the digits of n from from up, given those of the digits above to.
BigDivRange[n \in Big, d \in Big, from \in Nat, to \in Nat, high \in BigQuotRem] ==
    IF from > to THEN high
    ELSE IF from = to THEN BigDivLow[n[from], high, d]
    ELSE BigDivRange[n, d, from, (from + to) \div 2,
                     BigDivRange[n, d, (from + to) \div 2 + 1, to, high]]

\* [q |-> n div d, r |-> n mod d], for d > 0
BigDivMod[n \in Big, d \in Big] ==
    BigDivRange[n, d, 1, Len(n), [q |-> << >>, r |-> << >>]]

\* q or q + 1: the quotient q of a division by d, of which twice is the
\* remainder doubled, rounded to the nearest integer, a tie to the even one.
BigRounded[q \in Big, twice \in Big, d \in Big] ==
    IF BigLess[d, twice] \/ (twice = d /\ DigitAt(q, 1) % 2 = 1)
    THEN BigAdd[q, <<1>>]
    ELSE q

BigRoundQuotient[qr \in BigQuotRem, d \in Big] ==
    BigRounded[qr.q, BigAdd[qr.r, qr.r], d]

\* n / d rounded to the nearest integer, a tie to the even one.
BigRoundDiv[n \in Big, d \in Big] == BigRoundQuotient[BigDivMod[n, d], d]

\* The floats of Python are the binary64 numbers: a significand of
\* SignificandBits bits at an exponent of MinExponent..MaxExponent, the
\* subnormal numbers, which have a shorter significand at MinExponent, zero,
\* and the infinity that every greater result becomes.  A finite float is
\* [m |-> significand, e |-> exponent] and has the value m * 2^e; zero is the
\* significand << >> at MinExponent.
SignificandBits == 53
MinExponent == 0 - 1074
MaxExponent == 971
Infinity == [inf |-> TRUE]
Zero == [m |-> << >>, e |-> MinExponent]
FiniteFloat ==
    {x \in [m : Big, e : MinExponent..MaxExponent] :
        /\ BigNorm[x.m] = x.m
        /\ \/ BigBitLen[x.m] = SignificandBits
           \/ x.e = MinExponent /\ BigBitLen[x.m] < SignificandBits}
Float == FiniteFloat \cup {Infinity}

\* The float of the significand m, of SignificandBits bits at most unless it
\* was rounded up to 2^SignificandBits, at the exponent e >= MinExponent: the
\* infinity when the exponent is beyond MaxExponent.
FloatPacked[m \in Big, e \in Int] ==
    IF m = << >> THEN Zero
    ELSE IF BigBitLen[m] > SignificandBits
    THEN FloatPacked[BigShiftLeft[<<1>>, SignificandBits - 1], e + 1]
    ELSE IF e > MaxExponent THEN Infinity
    ELSE [m |-> m, e |-> e]

\* n / d as a float of exponent e.
FloatAt[n \in Big, d \in Big, e \in Int] ==
    FloatPacked[BigRoundDiv[IF e < 0 THEN BigShiftLeft[n, 0 - e] ELSE n,
                            IF e > 0 THEN BigShiftLeft[d, e] ELSE d],
                e]

\* The float nearest to n / d, of which the quotient lies from 2^(high - 2 +
\* SignificandBits) to 2^(high + SignificandBits): the exponent is the one that
\* gives the significand SignificandBits bits, and MinExponent at least.
FloatNear[n \in Big, d \in Big, high \in Int] ==
    IF BigLess[IF high < 0 THEN BigShiftLeft[n, 0 - high] ELSE n,
               BigShiftLeft[IF high > 0 THEN BigShiftLeft[d, high] ELSE d,
                            SignificandBits - 1]]
    THEN FloatAt[n, d, Max(high - 1, MinExponent)]
    ELSE FloatAt[n, d, Max(high, MinExponent)]

\* The float nearest to n / d.
FloatOfRatio[n \in Big, d \in Big] ==
    IF n = << >> THEN Zero
    ELSE FloatNear[n, d, BigBitLen[n] - BigBitLen[d] + 1 - SignificandBits]

\* The float nearest to m * 2^e, for m of bits bits and e >= MinExponent.
FloatRounded[m \in Big, bits \in Nat, e \in Int] ==
    IF bits <= SignificandBits
    THEN FloatPacked[BigShiftLeft[m, Min(SignificandBits - bits, e - MinExponent)],
                     e - Min(SignificandBits - bits, e - MinExponent)]
    ELSE FloatPacked[BigRoundDiv[m, BigShiftLeft[<<1>>, bits - SignificandBits]],
                     e + bits - SignificandBits]

FloatOfProduct[m \in Big, e \in Int] == FloatRounded[m, BigBitLen[m], e]

\* The float product x * k of a float and a natural number k > 0 that is a float.
FloatTimes[x \in Float, k \in Nat] ==
    IF x = Infinity THEN Infinity
    ELSE FloatOfProduct[BigMul[x.m, BigOf[k]], x.e]

\* What a call gives: the value it returns, or the exception it raises.
ValueError == "ValueError"
OverflowError == "OverflowError"
Returned(value) == [ok |-> TRUE, value |-> value, error |-> "none"]
Raised(error, value) == [ok |-> FALSE, value |-> value, error |-> error]

\* int(x) of a float x that is not negative: it raises OverflowError for the
\* infinity.
FloatToInt[x \in Float] ==
    IF x = Infinity THEN Raised(OverflowError, 0)
    ELSE IF x.e >= 0 THEN Returned(IntOf[BigShiftLeft[x.m, x.e]])
    ELSE Returned(IntOf[BigDivMod[x.m, BigShiftLeft[<<1>>, 0 - x.e]].q])

-----------------------------------------------------------------------------
(* ChunkingHelper *)

\* Length of the longest run of decimal digits of s that starts at position from.
DigitRun(s, from) ==
    LET stops == {i \in from..Len(s) : DigitValue(s[i]) < 0}
    IN  IF stops = {} THEN Len(s) - from + 1
        ELSE (CHOOSE i \in stops : \A j \in stops : i <= j) - from

\* 10^n, as digits in base Base
BigPow10[n \in Nat] ==
    IF n = 0 THEN <<1>>
    ELSE IF n = 1 THEN <<10>>
    ELSE BigMul[BigPow10[n \div 2], BigPow10[n - n \div 2]]

\* The number a string of decimal digits denotes, as digits in base Base: the
\* number of its first half, times 10 to the length of the second, plus that of
\* the second.
DigitsValue[ds \in Seq(STRING)] ==
    IF ds = << >> THEN << >>
    ELSE IF Len(ds) = 1 THEN BigOf[DigitValue(ds[1])]
    ELSE LET half == Len(ds) \div 2
         IN  BigAdd[BigMul[DigitsValue[SubSeq(ds, 1, half)], BigPow10[Len(ds) - half]],
                    DigitsValue[SubSeq(ds, half + 1, Len(ds))]]

\* re.match(r'^(\d+(?:\.\d+)?)\s*([KM]?)$', s): where the groups lie, or no match.
\* int_len digits, then frac_len digits after a "." (0: no fraction), then
\* whitespace, then at most one K or M, then the end of the string.
ChunkSizeMatch(s) ==
    LET int_len  == DigitRun(s, 1)
        has_frac == /\ int_len >= 1
                    /\ Len(s) >= int_len + 2
                    /\ s[int_len + 1] = "."
                    /\ DigitRun(s, int_len + 2) >= 1
        frac_len == IF has_frac THEN DigitRun(s, int_len + 2) ELSE 0
        num_end  == IF has_frac THEN int_len + 1 + frac_len ELSE int_len
        rest     == SubSeq(s, num_end + 1, Len(s))
        unit     == Strip(rest)
    IN  [matched  |-> /\ int_len >= 1
                      /\ unit \in {<< >>, <<"K">>, <<"M">>}
                      /\ (rest = << >> \/ rest[Len(rest)] \notin Whitespace),
         int_part |-> SubSeq(s, 1, int_len),
         frac     |-> SubSeq(s, int_len + 2, int_len + 1 + frac_len),
         unit     |-> unit]

DefaultChunkSize == 200000
Kilo == 1000
Mega == 1000000

\* What int() gave, or what the check of the result gives when int() returned:
\* if result <= 0: raise ValueError, else return result
Outcomes == [ok : BOOLEAN, value : Int, error : STRING]
CheckedChunkSize[result \in Outcomes] ==
    IF ~result.ok THEN result
    ELSE IF result.value <= 0 THEN Raised(ValueError, result.value)
    ELSE result

\* int() of the number of tokens of a match: float() of the first group, the
\* decimal int_part.frac, times the unit in a float product, and int()
\* truncates it.
MatchedChunkSize[int_part \in Seq(STRING), frac \in Seq(STRING), unit \in Seq(STRING)] ==
    IF unit = <<"K">>
    THEN FloatToInt[FloatTimes[FloatOfRatio[DigitsValue[int_part \o frac], BigPow10[Len(frac)]], Kilo]]
    ELSE IF unit = <<"M">>
    THEN FloatToInt[FloatTimes[FloatOfRatio[DigitsValue[int_part \o frac], BigPow10[Len(frac)]], Mega]]
    ELSE FloatToInt[FloatOfRatio[DigitsValue[int_part \o frac], BigPow10[Len(frac)]]]

\* The results of ChunkSizeMatch.
ChunkSizeMatches ==
    [matched : BOOLEAN, int_part : Seq(STRING), frac : Seq(STRING), unit : Seq(STRING)]

\* The outcome of a match m of ChunkSizeMatch.
ChunkSizeOfMatch[m \in ChunkSizeMatches] ==
    IF ~m.matched THEN Raised(ValueError, 0)
    ELSE CheckedChunkSize[MatchedChunkSize[m.int_part, m.frac, m.unit]]

\* ChunkingHelper.parse_chunk_size: Returned(tokens), or Raised(ValueError, ..)
\* where the code raises ValueError, or Raised(OverflowError, ..) where int()
\* raises it, for a number or a product beyond the floats.
parse_chunk_size(chunk_size_str) ==
    IF chunk_size_str = None \/ chunk_size_str = << >>
    THEN Returned(DefaultChunkSize)
    ELSE ChunkSizeOfMatch[ChunkSizeMatch(Strip(Upper(chunk_size_str)))]

-----------------------------------------------------------------------------
(* HistoryExtractor: pure helpers *)

\* Timestamps.  The unit of the timestamps of the model is 365 days: the
\* timestamp t stands for the Chrome timestamp t * 31536000000000 (microseconds
\* since 1601-01-01): UnitFactor followed by UnitZeros zeros.  datetime holds the years 1 to 9999, which are the instants
\* of the timestamps MinTimestamp..MaxTimestamp; datetime.fromtimestamp raises
\* (ValueError, OverflowError or OSError) for an instant outside them.
UnitFactor == 31536
UnitZeros == 9
MinTimestamp == 0 - 1601
MaxTimestamp == 8404

\* datetime.fromtimestamp raises for the instant of chrome_timestamp.
TimestampOutOfRange(chrome_timestamp) ==
    chrome_timestamp < MinTimestamp \/ chrome_timestamp > MaxTimestamp

\* What _chrome_timestamp_to_datetime gives where it raises.
TimestampError == <<"TimestampError">>

\* _chrome_timestamp_to_datetime.  The ISO-8601 text of the instant of a non-zero
\* timestamp t is represented by <<t>> (ordered as the instants are), the empty
\* string by << >>.
_chrome_timestamp_to_datetime(chrome_timestamp) ==
    IF chrome_timestamp = 0 THEN << >>
    ELSE IF TimestampOutOfRange(chrome_timestamp) THEN TimestampError
    ELSE <<chrome_timestamp>>

-----------------------------------------------------------------------------
(* ChunkingHelper.estimate_tokens *)

\* json.dumps(obj, ensure_ascii=False) with the default separators ", " and
\* ": ", by the number of characters of the text it returns.

\* The characters a JSON string holds as a backslash and one character.
JsonShortEscapes == {"\"", "\\", "\n", "\r", "\t", "\f", "U+0008"}

\* The other characters below U+0020, which a JSON string holds as \u00XX; every
\* character above them is written as itself.
JsonLongEscapes ==
    { "U+0000", "U+0001", "U+0002", "U+0003", "U+0004", "U+0005", "U+0006",
      "U+0007", "U+000B", "U+000E", "U+000F", "U+0010", "U+0011", "U+0012",
      "U+0013", "U+0014", "U+0015", "U+0016", "U+0017", "U+0018", "U+0019",
      "U+001A", "U+001B", "U+001C", "U+001D", "U+001E", "U+001F" }

\* A str: its characters between two quotes.
JsonStringLen(s) ==
    Len(s) + 2 + Cardinality({i \in 1..Len(s) : s[i] \in JsonShortEscapes})
           + 5 * Cardinality({i \in 1..Len(s) : s[i] \in JsonLongEscapes})

\* An int: a sign and the decimal digits.
RECURSIVE JsonIntLen(_)
JsonIntLen(n) ==
    IF n < 0 THEN 1 + JsonIntLen(0 - n)
    ELSE IF n < 10 THEN 1
    ELSE 1 + JsonIntLen(n \div 10)

\* The int of a timestamp of the model.
JsonTimestampLen(t) == IF t = 0 THEN 1 ELSE JsonIntLen(t * UnitFactor) + UnitZeros

\* datetime.isoformat() of an instant of whole seconds in UTC:
\* YYYY-MM-DDTHH:MM:SS+00:00.
IsoChars == 25

\* The str _chrome_timestamp_to_datetime returned.
JsonIsoLen(iso) == IF iso = << >> THEN 2 ELSE IsoChars + 2

\* A key between two quotes, ": " and a value of value_len characters.  The
\* keys are strings of TLA+, with no character to escape.
JsonMemberLen(key, value_len) == Len(key) + 2 + 2 + value_len

\* A dict or a list: the brackets, the items and ", " between them.
JsonContainerLen(item_lens) ==
    2 + SumSeq(item_lens) + 2 * Max(0, Len(item_lens) - 1)

\* The dict of one visit (lines 201-207).
JsonVisitLen(visit) ==
    JsonContainerLen(<<
        JsonMemberLen("visit_time", JsonIsoLen(visit.visit_time)),
        JsonMemberLen("visit_timestamp", JsonTimestampLen(visit.visit_timestamp)),
        JsonMemberLen("duration", JsonIntLen(visit.duration)),
        JsonMemberLen("transition", JsonIntLen(visit.transition)),
        JsonMemberLen("referrer", JsonStringLen(visit.referrer)) >>)

\* len(json.dumps(asdict(entry), ensure_ascii=False)) (lines 70-71): the fields
\* of HistoryEntry in the order of their declaration (lines 22-32).  The
\* category is a string of TLA+, with no character to escape.
JsonLen(entry) ==
    JsonContainerLen(<<
        JsonMemberLen("id", JsonIntLen(entry.id)),
        JsonMemberLen("url", JsonStringLen(entry.url)),
        JsonMemberLen("title", JsonStringLen(entry.title)),
        JsonMemberLen("visit_count", JsonIntLen(entry.visit_count)),
        JsonMemberLen("typed_count", JsonIntLen(entry.typed_count)),
        JsonMemberLen("last_visit_time", JsonIsoLen(entry.last_visit_time)),
        JsonMemberLen("last_visit_timestamp",
                      JsonTimestampLen(entry.last_visit_timestamp)),
        JsonMemberLen("domain", JsonStringLen(entry.domain)),
        JsonMemberLen("visits",
            JsonContainerLen([i \in 1..Len(entry.visits) |->
                                 JsonVisitLen(entry.visits[i])])),
        JsonMemberLen("search_terms",
            JsonContainerLen([i \in 1..Len(entry.search_terms) |->
                                 JsonStringLen(entry.search_terms[i])])),
        JsonMemberLen("category", Len(entry.category) + 2) >>)

CharsPerToken == 4

\* ChunkingHelper.estimate_tokens(asdict(entry))
estimate_tokens(entry) == Max(1, JsonLen(entry) \div CharsPerToken)

-----------------------------------------------------------------------------
(* HistoryExtractor: pure helpers, continued *)

HttpPrefix == <<"h", "t", "t", "p", ":", "/", "/">>
HttpsPrefix == <<"h", "t", "t", "p", "s", ":", "/", "/">>
Unknown == <<"u", "n", "k", "n", "o", "w", "n">>

\* HistoryExtractor._extract_domain: "unknown" stands for the except branch
\* (IndexError when the list has no such segment, AttributeError for None).
_extract_domain(url) ==
    IF url = None THEN Unknown
    ELSE LET segments == Split(url, "/")
         IN  IF StartsWith(url, HttpPrefix) \/ StartsWith(url, HttpsPrefix)
             THEN IF Len(segments) >= 3 THEN Lower(segments[3]) ELSE Unknown
             ELSE Lower(segments[1])

KwDevelopment ==
    { <<"g", "i", "t", "h", "u", "b">>,
      <<"s", "t", "a", "c", "k", "o", "v", "e", "r", "f", "l", "o", "w">>,
      <<"d", "e", "v", ".", "t", "o">>,
      <<"m", "e", "d", "i", "u", "m">>,
      <<"h", "a", "c", "k", "e", "r", "n", "e", "w", "s">>,
      <<"r", "e", "d", "d", "i", "t", ".", "c", "o", "m", "/", "r", "/", "p", "r", "o", "g", "r", "a", "m", "m", "i", "n", "g">>,
      <<"d", "o", "c", "s", ".">>,
      <<"a", "p", "i", ".">>,
      <<"d", "e", "v", "e", "l", "o", "p", "e", "r">> }
KwLearning ==
    { <<"c", "o", "u", "r", "s", "e", "r", "a">>,
      <<"u", "d", "e", "m", "y">>,
      <<"p", "l", "u", "r", "a", "l", "s", "i", "g", "h", "t">>,
      <<"y", "o", "u", "t", "u", "b", "e">>,
      <<"k", "h", "a", "n">>,
      <<"e", "d", "x">>,
      <<"h", "a", "r", "v", "a", "r", "d">>,
      <<"m", "i", "t">>,
      <<"u", "n", "i", "v", "e", "r", "s", "i", "t", "y">> }
KwLearningTitle ==
    { <<"t", "u", "t", "o", "r", "i", "a", "l">>,
      <<"c", "o", "u", "r", "s", "e">>,
      <<"l", "e", "a", "r", "n">>,
      <<"e", "d", "u", "c", "a", "t", "i", "o", "n">> }
KwWork ==
    { <<"s", "l", "a", "c", "k">>,
      <<"n", "o", "t", "i", "o", "n">>,
      <<"t", "r", "e", "l", "l", "o">>,
      <<"j", "i", "r", "a">>,
      <<"c", "o", "n", "f", "l", "u", "e", "n", "c", "e">>,
      <<"o", "f", "f", "i", "c", "e">>,
      <<"g", "o", "o", "g", "l", "e", ".", "c", "o", "m", "/", "d", "r", "i", "v", "e">>,
      <<"d", "r", "o", "p", "b", "o", "x">> }
KwNews ==
    { <<"n", "e", "w", "s">>,
      <<"b", "b", "c">>,
      <<"c", "n", "n">>,
      <<"r", "e", "u", "t", "e", "r", "s">>,
      <<"t", "e", "c", "h", "c", "r", "u", "n", "c", "h">>,
      <<"a", "r", "s", "-", "t", "e", "c", "h", "n", "i", "c", "a">> }
KwSocial ==
    { <<"f", "a", "c", "e", "b", "o", "o", "k">>,
      <<"t", "w", "i", "t", "t", "e", "r">>,
      <<"l", "i", "n", "k", "e", "d", "i", "n">>,
      <<"i", "n", "s", "t", "a", "g", "r", "a", "m">>,
      <<"t", "i", "k", "t", "o", "k">> }
KwShopping ==
    { <<"a", "m", "a", "z", "o", "n">>,
      <<"e", "b", "a", "y">>,
      <<"s", "h", "o", "p">>,
      <<"s", "t", "o", "r", "e">>,
      <<"b", "u", "y">>,
      <<"m", "a", "r", "k", "e", "t">> }
KwEntertainment ==
    { <<"n", "e", "t", "f", "l", "i", "x">>,
      <<"s", "p", "o", "t", "i", "f", "y">>,
      <<"t", "w", "i", "t", "c", "h">>,
      <<"g", "a", "m", "i", "n", "g">>,
      <<"e", "n", "t", "e", "r", "t", "a", "i", "n", "m", "e", "n", "t">> }

AnyKeywordIn(keywords, s) == \E keyword \in keywords : Contains(s, keyword)

\* What _categorize_url gives where it raises: None has no lower().
AttributeError == "AttributeError"

\* A faulty variant of _categorize_url, which C10 tells apart from it: the Shopping rule tested before the
\* Learning & Education rule.
_categorize_url_shopping_first(url, title) ==
    IF url = None \/ title = None THEN AttributeError
    ELSE
    LET domain      == _extract_domain(url)
        title_lower == Lower(title)
    IN  IF AnyKeywordIn(KwDevelopment, domain) THEN "Development & Tech"
        ELSE IF AnyKeywordIn(KwShopping, domain) THEN "Shopping"
        ELSE IF AnyKeywordIn(KwLearning, domain) \/ AnyKeywordIn(KwLearningTitle, title_lower)
             THEN "Learning & Education"
        ELSE IF AnyKeywordIn(KwWork, domain) THEN "Work & Productivity"
        ELSE IF AnyKeywordIn(KwNews, domain) THEN "News & Information"
        ELSE IF AnyKeywordIn(KwSocial, domain) THEN "Social Media"
        ELSE IF AnyKeywordIn(KwEntertainment, domain) THEN "Entertainment"
        ELSE "Other"

\* HistoryExtractor._categorize_url: url.lower() and title.lower() come first
\* (lines 107-108), then the rules, which test the domain and the title.
_categorize_url(url, title) ==
    IF url = None \/ title = None THEN AttributeError
    ELSE
    LET domain      == _extract_domain(url)
        title_lower == Lower(title)
    IN  IF AnyKeywordIn(KwDevelopment, domain) THEN "Development & Tech"
        ELSE IF AnyKeywordIn(KwLearning, domain) \/ AnyKeywordIn(KwLearningTitle, title_lower)
             THEN "Learning & Education"
        ELSE IF AnyKeywordIn(KwWork, domain) THEN "Work & Productivity"
        ELSE IF AnyKeywordIn(KwNews, domain) THEN "News & Information"
        ELSE IF AnyKeywordIn(KwSocial, domain) THEN "Social Media"
        ELSE IF AnyKeywordIn(KwShopping, domain) THEN "Shopping"
        ELSE IF AnyKeywordIn(KwEntertainment, domain) THEN "Entertainment"
        ELSE "Other"

-----------------------------------------------------------------------------
(* HistoryExtractor.extract_data *)

NoTitle == <<"N", "o", " ", "T", "i", "t", "l", "e">>

\* dict.get(key, default)
DictGet(d, key, default) == IF key \in DOMAIN d THEN d[key] ELSE default

\* The dict of one visit row (lines 201-207).
VisitDict(visit) ==
    [visit_time      |-> _chrome_timestamp_to_datetime(visit.visit_time),
     visit_timestamp |-> visit.visit_time,
     duration        |-> visit.visit_duration,
     transition      |-> visit.transition,
     referrer        |-> IF visit.external_referrer_url \in {None, << >>} THEN << >>
                         ELSE visit.external_referrer_url]

\* url_visits after the loop of lines 199-207: url id -> its visit dicts, in the
\* order of the visit stream; ids with no visit row have no key.
GroupVisits(visits) ==
    [url_id \in {visits[i].url : i \in 1..Len(visits)} |->
        LET Owned(v) == v.url = url_id
            rows     == SelectSeq(visits, Owned)
        IN  [i \in 1..Len(rows) |-> VisitDict(rows[i])]]

\* url_search_terms after the loop of lines 221-222.
GroupSearchTerms(terms) ==
    [url_id \in {terms[i].url_id : i \in 1..Len(terms)} |->
        LET Owned(t) == t.url_id = url_id
            rows     == SelectSeq(terms, Owned)
        IN  [i \in 1..Len(rows) |-> rows[i].term]]

\* not url or url.strip() == ''
SkipsUrl(url) == url = None \/ url = << >> \/ Strip(url) = << >>

\* The HistoryEntry built from one urls row (lines 234-246).
MakeEntry(row, url_visits, url_search_terms) ==
    LET title == IF row.title = None \/ row.title = << >> THEN << >> ELSE row.title
    IN  [id                   |-> row.id,
         url                  |-> row.url,
         title                |-> IF title = << >> THEN NoTitle ELSE title,
         visit_count          |-> row.visit_count,
         typed_count          |-> row.typed_count,
         last_visit_time      |-> _chrome_timestamp_to_datetime(row.last_visit_time),
         last_visit_timestamp |-> row.last_visit_time,
         domain               |-> _extract_domain(row.url),
         visits               |-> DictGet(url_visits, row.id, << >>),
         search_terms         |-> DictGet(url_search_terms, row.id, << >>),
         category             |-> _categorize_url(row.url, title)]

\* The HistoryEntry of the row cannot be built: the conversion of its
\* last_visit_time raises.
RowRaises(row) ==
    TimestampOutOfRange(row.last_visit_time)

\* The entries appended by the loop of lines 227-248, in the order of the rows:
\* a row with a blank url is skipped, and the loop ends at the first other row
\* whose entry cannot be built.
RECURSIVE BuildEntries(_, _, _)
BuildEntries(rows, url_visits, url_search_terms) ==
    IF rows = << >> THEN << >>
    ELSE IF SkipsUrl(Head(rows).url)
         THEN BuildEntries(Tail(rows), url_visits, url_search_terms)
    ELSE IF RowRaises(Head(rows)) THEN << >>
    ELSE <<MakeEntry(Head(rows), url_visits, url_search_terms)>>
            \o BuildEntries(Tail(rows), url_visits, url_search_terms)

\* The loop of lines 199-207 raises: the conversion of a visit_time does.
VisitsRaise(visits) ==
    \E i \in 1..Len(visits) : TimestampOutOfRange(visits[i].visit_time)

\* The loop of lines 227-248 raises.
RowsRaise(rows) ==
    \E i \in 1..Len(rows) : ~SkipsUrl(rows[i].url) /\ RowRaises(rows[i])

\* A faulty variant of InsertPos, which C6 tells apart from it: an element goes before the elements of equal
\* key (an ascending sort followed by a reversal).
InsertPosBeforeEqual(keys, key) ==
    LET notgreater == {i \in 1..Len(keys) : keys[i] <= key}
    IN  IF notgreater = {} THEN Len(keys) + 1
        ELSE CHOOSE i \in notgreater : \A j \in notgreater : i <= j

\* Where a stable descending sort puts a new element: after every element whose
\* key is greater than or equal to its own.
InsertPos(keys, key) ==
    LET smaller == {i \in 1..Len(keys) : keys[i] < key}
    IN  IF smaller = {} THEN Len(keys) + 1
        ELSE CHOOSE i \in smaller : \A j \in smaller : i <= j

\* The indices of keys in the order list.sort(reverse=True) gives them: stable,
\* greatest key first.
RECURSIVE SortedOrder(_)
SortedOrder(keys) ==
    IF keys = << >> THEN << >>
    ELSE LET n     == Len(keys)
             order == SortedOrder(SubSeq(keys, 1, n - 1))
             p     == InsertPos([i \in 1..Len(order) |-> keys[order[i]]], keys[n])
         IN  SubSeq(order, 1, p - 1) \o <<n>> \o SubSeq(order, p, Len(order))

\* history_entries.sort(key=lambda x: x.last_visit_timestamp, reverse=True)
SortEntries(entries) ==
    LET order == SortedOrder([i \in 1..Len(entries) |-> entries[i].last_visit_timestamp])
    IN  [i \in 1..Len(entries) |-> entries[order[i]]]

\* extract_data on a fresh extractor: [ok |-> its return value, entries |->
\* history_entries afterwards, read |-> whether the database was opened].  An
\* exception of a loop is caught at line 261: extract_data returns False, and
\* history_entries keeps the entries appended until then, unsorted.
extract_data(db, urls, visits, terms) ==
    IF db = "missing" THEN [ok |-> FALSE, entries |-> << >>, read |-> FALSE]
    ELSE IF db = "error" THEN [ok |-> FALSE, entries |-> << >>, read |-> TRUE]
    ELSE IF VisitsRaise(visits) THEN [ok |-> FALSE, entries |-> << >>, read |-> TRUE]
    ELSE LET built == BuildEntries(urls, GroupVisits(visits), GroupSearchTerms(terms))
         IN  IF RowsRaise(urls) THEN [ok |-> FALSE, entries |-> built, read |-> TRUE]
             ELSE [ok |-> TRUE, entries |-> SortEntries(built), read |-> TRUE]

-----------------------------------------------------------------------------
(* HistoryExtractor.generate_summary *)

\* The dict {}
EmptyDict == [k \in {} |-> 0]

TopDomains == 20

Range(seq) == {seq[i] : i \in 1..Len(seq)}

Occurrences(seq, x) == Cardinality({i \in 1..Len(seq) : seq[i] = x})

\* The keys of a defaultdict(int) counted over seq, in insertion order.
RECURSIVE FirstSeenOrder(_)
FirstSeenOrder(seq) ==
    IF seq = << >> THEN << >>
    ELSE LET n      == Len(seq)
             before == FirstSeenOrder(SubSeq(seq, 1, n - 1))
         IN  IF seq[n] \in Range(before) THEN before ELSE Append(before, seq[n])

\* min / max of ISO strings (default=""): the strings order as their instants.
MinTime(times) ==
    IF times = {} THEN << >>
    ELSE CHOOSE t \in times : \A u \in times : t[1] <= u[1]
MaxTime(times) ==
    IF times = {} THEN << >>
    ELSE CHOOSE t \in times : \A u \in times : t[1] >= u[1]

generate_summary(entries) ==
    IF entries = << >> THEN EmptyDict
    ELSE LET cats    == [i \in 1..Len(entries) |-> entries[i].category]
             doms    == [i \in 1..Len(entries) |-> entries[i].domain]
             names   == FirstSeenOrder(doms)
             counts  == [i \in 1..Len(names) |-> Occurrences(doms, names[i])]
             order   == SortedOrder(counts)
             ranked  == [i \in 1..Len(names) |-> <<names[order[i]], counts[order[i]]>>]
             known   == {entries[i].last_visit_time : i \in 1..Len(entries)} \ {<< >>}
         IN  [total_urls         |-> Len(entries),
              total_visits       |-> SumSeq([i \in 1..Len(entries) |-> Len(entries[i].visits)]),
              total_search_terms |-> SumSeq([i \in 1..Len(entries) |->
                                                Len(entries[i].search_terms)]),
              categories         |-> [c \in Range(cats) |-> Occurrences(cats, c)],
              top_domains        |-> SubSeq(ranked, 1, IF Len(ranked) < TopDomains
                                                       THEN Len(ranked) ELSE TopDomains),
              date_range         |-> [oldest |-> MinTime(known), newest |-> MaxTime(known)]]

-----------------------------------------------------------------------------
(* HistoryExtractor.chunk_history *)

OversizeWarning == "This chunk exceeds the requested token limit due to a single large entry"

\* base_metadata (lines 368-371); the clock reading is the constant "now".
BaseMetadata(entries) ==
    [extraction_date |-> "now",
     categories      |-> {entries[i].category : i \in 1..Len(entries)}]

\* chunk_metadata of a chunk closed from the accumulator (lines 381-386,
\* 406-411, 422-427).
ChunkMetadata(base, st) ==
    base @@ [chunk_id         |-> st.chunk_counter,
             total_entries    |-> Len(st.current_chunk),
             estimated_tokens |-> st.current_tokens]

\* large_entry_metadata (lines 393-399)
LargeEntryMetadata(base, st, entry_tokens) ==
    base @@ [chunk_id         |-> st.chunk_counter,
             total_entries    |-> 1,
             estimated_tokens |-> entry_tokens,
             warning          |-> OversizeWarning]

\* Appends the accumulated chunk and resets the accumulator (lines 387-390,
\* 412-415).
FlushCurrent(base, st) ==
    [chunks         |-> Append(st.chunks, <<st.current_chunk, ChunkMetadata(base, st)>>),
     current_chunk  |-> << >>,
     current_tokens |-> 0,
     chunk_counter  |-> st.chunk_counter + 1]

\* A faulty variant of StartsNewChunk, which C12 tells apart from it: a chunk is
\* closed as soon as the entry would fill it to the limit.
StartsNewChunkAtLimit(st, entry_tokens, max_tokens_per_chunk) ==
    st.current_tokens + entry_tokens >= max_tokens_per_chunk /\ st.current_chunk # << >>

\* A faulty variant of StartsNewChunk, which C2 tells apart from it: the running sum is left out of the test.
StartsNewChunkIgnoringSum(st, entry_tokens, max_tokens_per_chunk) ==
    entry_tokens > max_tokens_per_chunk /\ st.current_chunk # << >>

\* current_tokens + entry_tokens > max_tokens_per_chunk and current_chunk (line 405)
StartsNewChunk(st, entry_tokens, max_tokens_per_chunk) ==
    st.current_tokens + entry_tokens > max_tokens_per_chunk /\ st.current_chunk # << >>

\* One iteration of the loop of lines 373-418.
ChunkStep(base, st, entry, max_tokens_per_chunk) ==
    LET entry_tokens == estimate_tokens(entry)
    IN  IF entry_tokens > max_tokens_per_chunk
        THEN LET s1 == IF st.current_chunk # << >> THEN FlushCurrent(base, st) ELSE st
             IN  [s1 EXCEPT
                    !.chunks = Append(@, <<<<entry>>,
                                           LargeEntryMetadata(base, s1, entry_tokens)>>),
                    !.chunk_counter = @ + 1]
        ELSE LET s1 == IF StartsNewChunk(st, entry_tokens, max_tokens_per_chunk)
                       THEN FlushCurrent(base, st) ELSE st
             IN  [s1 EXCEPT
                    !.current_chunk = Append(@, entry),
                    !.current_tokens = @ + entry_tokens]

RECURSIVE ChunkLoop(_, _, _, _)
ChunkLoop(base, st, entries, max_tokens_per_chunk) ==
    IF entries = << >> THEN st
    ELSE ChunkLoop(base, ChunkStep(base, st, Head(entries), max_tokens_per_chunk),
                   Tail(entries), max_tokens_per_chunk)

\* A faulty variant of LastChunk, which C1 tells apart from it: the accumulator left after the loop is dropped.
LastChunkForgotten(base, st) == st.chunks

\* "Don't forget the last chunk" (lines 421-428)
LastChunk(base, st) ==
    IF st.current_chunk # << >>
    THEN Append(st.chunks, <<st.current_chunk, ChunkMetadata(base, st)>>)
    ELSE st.chunks

\* A faulty variant of TotalChunks, which C8 tells apart from it: the running chunk counter is taken for the
\* number of chunks.
TotalChunksFromCounter(planned, chunk_counter) == chunk_counter

\* total_chunks = len(chunks) (line 431)
TotalChunks(planned, chunk_counter) == Len(planned)

chunk_history(entries, max_tokens_per_chunk) ==
    IF entries = << >> THEN << >>
    ELSE LET base    == BaseMetadata(entries)
             st      == ChunkLoop(base,
                                  [chunks |-> << >>, current_chunk |-> << >>,
                                   current_tokens |-> 0, chunk_counter |-> 1],
                                  entries, max_tokens_per_chunk)
             planned == LastChunk(base, st)
             total   == TotalChunks(planned, st.chunk_counter)
         IN  [i \in 1..Len(planned) |->
                 <<planned[i][1], planned[i][2] @@ [total_chunks |-> total]>>]

-----------------------------------------------------------------------------
(* main *)

NotExited == 0 - 1

\* The status of sys.exit(1) after extract_data returned False (line 512).
ExitExtractFailed == 1
\* The status of sys.exit(1) in the except ValueError branch (line 564).
ExitInvalidChunkSize == 1
\* The status of sys.exit(1) when chunk_history returned no chunk (line 551).
ExitNoChunks == 1
\* The status of sys.exit(1) when save_chunks returned False (line 560).
ExitSaveChunksFailed == 1
\* The status of the interpreter when main ends with an exception no except
\* clause catches: the OverflowError of line 536 is no ValueError (line 562).
ExitUncaughtException == 1

\* The output artifacts: one file per chunk, or the three files of the
\* non-chunked mode.
ChunkFile(chunk_id) == <<"comet_history_chunk", chunk_id>>
JsonFile == <<"comet_history_complete.json", 0>>
CsvFile == <<"comet_history_summary.csv", 0>>
StatisticsFile == <<"comet_history_statistics.json", 0>>

\* if args.chunk_size: (line 534)
ChunkingRequested == args_chunk_size # None /\ args_chunk_size # << >>

Exit(code, reason) ==
    /\ pc' = "exited"
    /\ exit_code' = code
    /\ exit_reason' = reason

\* Lines 507-512: extractor.extract_data() and the exit when it fails.
MainExtract ==
    /\ pc = "extract"
    /\ LET r == extract_data(db_state, urls_data, visits_data, search_terms_data)
       IN  /\ db_read' = r.read
           /\ history_entries' = r.entries
           /\ IF r.ok
              THEN pc' = "summary" /\ UNCHANGED <<exit_code, exit_reason>>
              ELSE Exit(ExitExtractFailed, "extract_failed")
    /\ UNCHANGED <<args_chunk_size, db_state, urls_data, visits_data, search_terms_data,
                   summary, max_tokens, chunks, attempted, failed,
                   cat_url, cat_title, cat_result, dom_result>>

\* Lines 515-534: the summary, and the choice of the output mode.
MainSummary ==
    /\ pc = "summary"
    /\ summary' = generate_summary(history_entries)
    /\ pc' = IF ChunkingRequested THEN "parse_chunk_size" ELSE "save_json"
    /\ UNCHANGED <<args_chunk_size, db_state, urls_data, visits_data, search_terms_data,
                   history_entries, max_tokens, chunks, exit_code,
                   exit_reason, db_read, attempted, failed,
                   cat_url, cat_title, cat_result, dom_result>>

\* Lines 535-537 and 562-564: parse_chunk_size, the exit on ValueError, and the
\* end of main with the traceback of any other exception.
MainParseChunkSize ==
    /\ pc = "parse_chunk_size"
    /\ \E r \in {parse_chunk_size(args_chunk_size)} :
          IF r.ok
          THEN /\ max_tokens' = r.value
               /\ pc' = "chunk_history"
               /\ UNCHANGED <<exit_code, exit_reason>>
          ELSE IF r.error = ValueError
          THEN /\ Exit(ExitInvalidChunkSize, "invalid_chunk_size")
               /\ UNCHANGED max_tokens
          ELSE /\ Exit(ExitUncaughtException, "uncaught_exception")
               /\ UNCHANGED max_tokens
    /\ UNCHANGED <<args_chunk_size, db_state, urls_data, visits_data, search_terms_data,
                   history_entries, summary, chunks, db_read, attempted,
                   failed, cat_url, cat_title, cat_result, dom_result>>

\* Lines 547-553: chunk_history and the exit when it returns no chunk.
MainChunkHistory ==
    /\ pc = "chunk_history"
    /\ chunks' = chunk_history(history_entries, max_tokens)
    /\ IF chunks' = << >>
       THEN Exit(ExitNoChunks, "no_chunks")
       ELSE pc' = "save_chunks" /\ UNCHANGED <<exit_code, exit_reason>>
    /\ UNCHANGED <<args_chunk_size, db_state, urls_data, visits_data, search_terms_data,
                   history_entries, summary, max_tokens, db_read, attempted,
                   failed, cat_url, cat_title, cat_result, dom_result>>

\* HistoryExtractor.save_chunks (lines 437-469) when the write of chunk number
\* first_failure raises (0: no write raises): the files the loop reached.
save_chunks(planned, first_failure) ==
    LET reached == IF first_failure = 0 THEN Len(planned) ELSE first_failure
    IN  [ok        |-> first_failure = 0,
         attempted |-> {ChunkFile(planned[i][2].chunk_id) : i \in 1..reached},
         failed    |-> IF first_failure = 0 THEN {}
                       ELSE {ChunkFile(planned[first_failure][2].chunk_id)}]

\* Lines 556-560: save_chunks, whose writes may raise, and the exit when it fails.
MainSaveChunks ==
    /\ pc = "save_chunks"
    /\ \E first_failure \in 0..Len(chunks) :
          LET r == save_chunks(chunks, first_failure)
          IN  /\ attempted' = r.attempted
              /\ failed' = r.failed
              /\ IF r.ok THEN Exit(0, "completed")
                 ELSE Exit(ExitSaveChunksFailed, "save_chunks_failed")
    /\ UNCHANGED <<args_chunk_size, db_state, urls_data, visits_data, search_terms_data,
                   history_entries, summary, max_tokens, chunks, db_read,
                   cat_url, cat_title, cat_result, dom_result>>

\* A write inside its own try/except: the file is attempted, and is recorded as
\* failed when the write raises.
WriteFile(file, raises, next_pc) ==
    /\ attempted' = attempted \cup {file}
    /\ failed' = IF raises THEN failed \cup {file} ELSE failed
    /\ pc' = next_pc

\* Lines 570-571: save_to_json (lines 265-286), which returns False when it raises.
MainSaveJson ==
    /\ pc = "save_json"
    /\ \E raises \in BOOLEAN : WriteFile(JsonFile, raises, "save_csv")
    /\ UNCHANGED <<args_chunk_size, db_state, urls_data, visits_data, search_terms_data,
                   history_entries, summary, max_tokens, chunks, exit_code,
                   exit_reason, db_read, cat_url, cat_title, cat_result, dom_result>>

\* Lines 574-575: save_to_csv (lines 288-321), which returns False when it raises.
MainSaveCsv ==
    /\ pc = "save_csv"
    /\ \E raises \in BOOLEAN : WriteFile(CsvFile, raises, "save_statistics")
    /\ UNCHANGED <<args_chunk_size, db_state, urls_data, visits_data, search_terms_data,
                   history_entries, summary, max_tokens, chunks, exit_code,
                   exit_reason, db_read, cat_url, cat_title, cat_result, dom_result>>

\* Lines 578-591: the statistics file in its try/except, then the end of main.
MainSaveStatistics ==
    /\ pc = "save_statistics"
    /\ \E raises \in BOOLEAN : WriteFile(StatisticsFile, raises, "exited")
    /\ exit_code' = 0
    /\ exit_reason' = "completed"
    /\ UNCHANGED <<args_chunk_size, db_state, urls_data, visits_data, search_terms_data,
                   history_entries, summary, max_tokens, chunks,
                   db_read, cat_url, cat_title, cat_result, dom_result>>

\* A direct call of _categorize_url(cat_url, cat_title).
CallCategorizeUrl ==
    /\ pc = "call"
    /\ cat_result = "not called"
    /\ cat_result' = _categorize_url(cat_url, cat_title)
    /\ UNCHANGED <<args_chunk_size, db_state, urls_data, visits_data, search_terms_data,
                   history_entries, summary, max_tokens, chunks, pc,
                   exit_code, exit_reason, db_read, attempted, failed,
                   cat_url, cat_title, dom_result>>

\* A direct call of _extract_domain(cat_url).
CallExtractDomain ==
    /\ pc = "call"
    /\ dom_result = None
    /\ dom_result' = _extract_domain(cat_url)
    /\ UNCHANGED <<args_chunk_size, db_state, urls_data, visits_data, search_terms_data,
                   history_entries, summary, max_tokens, chunks, pc,
                   exit_code, exit_reason, db_read, attempted, failed,
                   cat_url, cat_title, cat_result>>

-----------------------------------------------------------------------------
(* Inputs *)

GithubUrl == <<"h", "t", "t", "p", "s", ":", "/", "/", "g", "i", "t", "h", "u", "b", ".", "c", "o", "m", "/", "x">>
ShopUrl == <<"h", "t", "t", "p", "s", ":", "/", "/", "s", "h", "o", "p", ".", "b", "u", "y", ".", "c", "o", "m">>
BlankUrl == <<" ", "\r", "U+00A0">>
LearnTitle == <<"L", "e", "a", "r", "n", " ", "t", "u", "t", "o", "r", "i", "a", "l">>
IgnoredTitle == <<"i", "g", "n", "o", "r", "e", "d">>
Referrer == <<"h", "t", "t", "p", ":", "/", "/", "r">>

UrlRow(id, url, title, last_visit_time) ==
    [id |-> id, url |-> url, title |-> title, visit_count |-> 1, typed_count |-> 0,
     last_visit_time |-> last_visit_time, hidden |-> 0]

VisitRow(url, visit_time, referrer) ==
    [url |-> url, visit_time |-> visit_time, visit_duration |-> 0, transition |-> 0,
     external_referrer_url |-> referrer]

TermRow(url_id, term) == [url_id |-> url_id, term |-> term]

\* ORDER BY ... DESC of the urls and visits queries (lines 176, 192).
NonIncreasing(times) == \A i \in 1..(Len(times) - 1) : times[i] >= times[i + 1]

\* All sequences over S of length at most n.
SeqsUpTo(S, n) == UNION {[1..k -> S] : k \in 0..n}

\* str(n) for n >= 0
RECURSIVE ToDecimal(_)
ToDecimal(n) ==
    IF n < 10 THEN <<Digits[n + 1]>>
    ELSE Append(ToDecimal(n \div 10), Digits[(n % 10) + 1])

\* The state main() starts in, for the given inputs.
Start(arg, db, urls, visits, terms) ==
    /\ args_chunk_size = arg
    /\ db_state = db
    /\ urls_data = urls
    /\ visits_data = visits
    /\ search_terms_data = terms
    /\ history_entries = << >>
    /\ summary = EmptyDict
    /\ max_tokens = 0
    /\ chunks = << >>
    /\ pc = "extract"
    /\ exit_code = NotExited
    /\ exit_reason = "running"
    /\ db_read = FALSE
    /\ attempted = {}
    /\ failed = {}
    /\ cat_url = << >>
    /\ cat_title = << >>
    /\ cat_result = "not called"
    /\ dom_result = None

-----------------------------------------------------------------------------
(* Spec: runs of main *)

\* The three url records of the scenario of the specification (the empty url
\* is a blank one here: the query filters url = ''), and a fourth one whose
\* last_visit_time is before the year 1; three visits of which one is an
\* orphan, two search terms of which one is an orphan.
ScenarioUrls ==
    << UrlRow(1, GithubUrl, None, 2),
       UrlRow(2, ShopUrl, LearnTitle, 2),
       UrlRow(3, BlankUrl, IgnoredTitle, 1),
       UrlRow(4, ShopUrl, None, MinTimestamp - 1) >>
ScenarioVisits ==
    << VisitRow(1, 2, Referrer), VisitRow(9, 2, None), VisitRow(1, 1, << >>) >>
TlaTerm == <<"t", "l", "a">>
OrphanTerm == <<"o", "r", "p", "h", "a", "n">>
ScenarioTerms == << TermRow(2, TlaTerm), TermRow(9, OrphanTerm) >>

MainChunkSizes ==
    {None, << >>} \cup
    { <<"1", "0">>,
      <<"1", "0", "0">>,
      <<" ", "2", "k", " ">>,
      <<"1", ".", "5", "K">>,
      <<"a", "b", "c">>,
      <<"0">>,
      <<"0", ".", "0", "0", "0", "4", "k">>,
      <<"-", "5">>,
      <<"1", "0", "k", "b">>,
      <<"4", ".">>,
      <<"2", ".", "0", "1", "K">>,
      <<"5", "\r", "k">>,
      <<"U+0663", "K">> }

\* A --chunk-size whose product with 1000 is beyond the floats: 1 and 306
\* zeros, K.
MainOverflowChunkSize == <<"1">> \o [i \in 1..306 |-> "0"] \o <<"K">>

Init ==
    \/ \E arg \in MainChunkSizes, db \in {"missing", "error", "ok"}, n \in {0, 2, 3, 4} :
       Start(arg, db, SubSeq(ScenarioUrls, 1, n),
             IF n = 0 THEN << >> ELSE ScenarioVisits,
             IF n = 0 THEN << >> ELSE ScenarioTerms)
    \/ Start(MainOverflowChunkSize, "ok", SubSeq(ScenarioUrls, 1, 2),
             ScenarioVisits, ScenarioTerms)

Next ==
    \/ MainExtract
    \/ MainSummary
    \/ MainParseChunkSize
    \/ MainChunkHistory
    \/ MainSaveChunks
    \/ MainSaveJson
    \/ MainSaveCsv
    \/ MainSaveStatistics

Spec == Init /\ [][Next]_vars

-----------------------------------------------------------------------------
(* SpecOrder: extract_data over url streams with equal and distinct times *)

MaxUrls == 3
OrderTimes == {0, 1, 2}
OrderUrls == {GithubUrl, BlankUrl}

\* Url streams as the urls query returns them: distinct ids, last_visit_time
\* descending; the ids rise or fall along the stream.
OrderUrlStreams ==
    UNION {
        { [i \in 1..n |-> UrlRow(IF rising THEN i ELSE n + 1 - i, urls[i], None, times[i])] :
            rising \in BOOLEAN,
            urls \in [1..n -> OrderUrls],
            times \in {ts \in [1..n -> OrderTimes] : NonIncreasing(ts)} } :
        n \in 0..MaxUrls }

InitOrder ==
    \E urls \in OrderUrlStreams :
       Start(None, "ok", urls, ScenarioVisits, ScenarioTerms)

NextExtract ==
    \/ MainExtract
    \/ MainSummary

SpecOrder == InitOrder /\ [][NextExtract]_vars

-----------------------------------------------------------------------------
(* SpecAssemble: extract_data over visit and search-term streams *)

MaxVisits == 2
MaxTerms == 1

\* Url ids 1 and 2 may be in the url stream; 3 never is.
AssembleUrlStreams ==
    { << >>,
      << UrlRow(2, ShopUrl, LearnTitle, 1) >>,
      << UrlRow(2, ShopUrl, LearnTitle, 2), UrlRow(1, GithubUrl, None, 1) >>,
      << UrlRow(1, BlankUrl, None, 2), UrlRow(2, GithubUrl, None, 2) >> }

\* The last two rows have a visit_time before the year 1.
AssembleVisitRows ==
    { VisitRow(url, visit_time, referrer) :
        url \in 1..3, visit_time \in 1..2, referrer \in {None, Referrer} }
    \cup { VisitRow(1, MinTimestamp - 1, None), VisitRow(3, MinTimestamp - 1, None) }

AssembleVisitStreams ==
    { vs \in SeqsUpTo(AssembleVisitRows, MaxVisits) :
        NonIncreasing([i \in 1..Len(vs) |-> vs[i].visit_time]) }

AssembleTermStreams ==
    SeqsUpTo({TermRow(url_id, TlaTerm) : url_id \in 1..3}, MaxTerms)

InitAssemble ==
    \E urls \in AssembleUrlStreams, visits \in AssembleVisitStreams,
       terms \in AssembleTermStreams :
       Start(None, "ok", urls, visits, terms)

SpecAssemble == InitAssemble /\ [][NextExtract]_vars

-----------------------------------------------------------------------------
(* SpecChunk: chunk_history and save_chunks, from the states in which main     *)
(* reaches chunk_history                                                       *)

MaxEntries == 4
MaxLimit == 200

\* The url rows as the urls query returns them; their ids are 1..n.  The
\* uniform rows differ in their id only; the others alternate between two urls
\* and have falling last_visit_times, the last one 0.
ChunkUrls(n, uniform) ==
    [i \in 1..n |->
        IF uniform THEN UrlRow(i, ShopUrl, None, 1)
        ELSE UrlRow(i, IF i % 2 = 1 THEN GithubUrl ELSE ShopUrl, None, n - i)]

\* The visit rows: two visits of the url of id owner and one of the url of no
\* row.  No url row has the id 0.
ChunkVisits(owner) ==
    << VisitRow(owner, 2, Referrer), VisitRow(9, 2, None), VisitRow(owner, 1, << >>) >>

\* The state in which main reaches chunk_history after --chunk-size limit, on
\* the entries and the summary of the rows.
InitChunkOf(limit, urls, visits, terms) ==
    \E entries \in {extract_data("ok", urls, visits, terms).entries},
       tokens \in {parse_chunk_size(ToDecimal(limit)).value} :
       /\ args_chunk_size = ToDecimal(limit)
       /\ db_state = "ok"
       /\ urls_data = urls
       /\ visits_data = visits
       /\ search_terms_data = terms
       /\ history_entries = entries
       /\ summary = generate_summary(entries)
       /\ max_tokens = tokens
       /\ chunks = << >>
       /\ pc = "chunk_history"
       /\ exit_code = NotExited
       /\ exit_reason = "running"
       /\ db_read = TRUE
       /\ attempted = {}
       /\ failed = {}
       /\ cat_url = << >>
       /\ cat_title = << >>
       /\ cat_result = "not called"
       /\ dom_result = None

\* The entries are as long as their rows make them: 57 to 69 tokens for an
\* entry without visits, 123 to 134 tokens for the entry with the visits.
InitChunk ==
    \E n \in 0..MaxEntries, limit \in 1..MaxLimit, owner \in 0..MaxEntries,
       uniform \in BOOLEAN :
       /\ owner <= n
       /\ InitChunkOf(limit, ChunkUrls(n, uniform), ChunkVisits(owner),
                      IF uniform THEN << >> ELSE ScenarioTerms)

NextChunk ==
    \/ MainChunkHistory
    \/ MainSaveChunks

SpecChunk == InitChunk /\ [][NextChunk]_vars

-----------------------------------------------------------------------------
(* SpecCategorize: direct calls of _categorize_url and _extract_domain *)

CategorizeUrls ==
    { <<"h", "t", "t", "p", "s", ":", "/", "/", "d", "o", "c", "s", ".", "g", "i", "t", "h", "u", "b", ".", "c", "o", "m", "/", "e", "n">>,
      <<"h", "t", "t", "p", "s", ":", "/", "/", "s", "h", "o", "p", ".", "b", "u", "y", ".", "c", "o", "m">>,
      <<"h", "t", "t", "p", "s", ":", "/", "/", "w", "w", "w", ".", "Y", "o", "u", "T", "u", "b", "e", ".", "c", "o", "m", "/", "w", "a", "t", "c", "h">>,
      <<"h", "t", "t", "p", ":", "/", "/", "n", "e", "w", "s", ".", "b", "b", "c", ".", "c", "o", ".", "u", "k", "/", "a">>,
      <<"t", "w", "i", "t", "t", "e", "r", ".", "c", "o", "m", "/", "h", "o", "m", "e">>,
      <<"h", "t", "t", "p", "s", ":", "/", "/", "s", "u", "p", "e", "r", "m", "a", "r", "k", "e", "t", ".", "e", "x", "a", "m", "p", "l", "e", "/", "x">>,
      <<"h", "t", "t", "p", "s", ":", "/", "/", "e", "x", "a", "m", "p", "l", "e", ".", "o", "r", "g">>,
      <<"H", "T", "T", "P", "S", ":", "/", "/", "G", "i", "t", "H", "u", "b", ".", "c", "o", "m", "/", "x">>,
      <<"h", "t", "t", "p", "s", ":", "/", "/">>,
      << >>,
      None,
      <<"h", "t", "t", "p", "s", ":", "/", "/", "U+212A", "H", "A", "N", ".", "o", "r", "g", "/", "x">>,
      <<"h", "t", "t", "p", ":", "/", "n", "e", "t", "f", "l", "i", "x", ".", "c", "o", "m">>,
      <<"f", "t", "p", ":", "/", "/", "f", "i", "l", "e", "s", ".", "e", "x", "a", "m", "p", "l", "e", "/", "n", "o", "t", "i", "o", "n">> }
CategorizeTitles ==
    { << >>,
      None,
      <<"L", "e", "a", "r", "n", " ", "t", "u", "t", "o", "r", "i", "a", "l">>,
      <<"M", "y", " ", "C", "O", "U", "R", "S", "E", " ", "n", "o", "t", "e", "s">>,
      <<"g", "i", "t", "h", "u", "b", " ", "i", "s", "s", "u", "e">>,
      <<"I", "n", "b", "o", "x">> }

InitCategorize ==
    \E url \in CategorizeUrls, title \in CategorizeTitles :
       /\ args_chunk_size = None
       /\ db_state = "ok"
       /\ urls_data = << >>
       /\ visits_data = << >>
       /\ search_terms_data = << >>
       /\ history_entries = << >>
       /\ summary = EmptyDict
       /\ max_tokens = 0
       /\ chunks = << >>
       /\ pc = "call"
       /\ exit_code = NotExited
       /\ exit_reason = "running"
       /\ db_read = FALSE
       /\ attempted = {}
       /\ failed = {}
       /\ cat_url = url
       /\ cat_title = title
       /\ cat_result = "not called"
       /\ dom_result = None

NextCategorize ==
    \/ CallCategorizeUrl
    \/ CallExtractDomain

SpecCategorize == InitCategorize /\ [][NextCategorize]_vars

-----------------------------------------------------------------------------
(* Properties *)

\* extract_data has returned True.
Extracted == pc # "extract" /\ exit_reason # "extract_failed"

\* generate_summary has returned.
Summarized == Extracted /\ pc # "summary"

\* chunk_history has returned.
ChunksPlanned ==
    \/ pc = "save_chunks"
    \/ exit_reason \in {"no_chunks", "save_chunks_failed"}
    \/ exit_reason = "completed" /\ ChunkingRequested

ChunkEntries(i) == chunks[i][1]
ChunkInfo(i) == chunks[i][2]
Flagged(i) == "warning" \in DOMAIN ChunkInfo(i)

RECURSIVE ConcatChunks(_)
ConcatChunks(cs) == IF cs = << >> THEN << >> ELSE Head(cs)[1] \o ConcatChunks(Tail(cs))

TokenSum(entries) == SumSeq([j \in 1..Len(entries) |-> estimate_tokens(entries[j])])

\* C1: for a positive limit, the entry lists of the chunks chunk_history
\* returns, concatenated in chunk order, are exactly history_entries: the same
\* entries in the same order, none duplicated and none omitted.
C1_ChunksConcatenateToHistory ==
    (ChunksPlanned /\ max_tokens > 0) => ConcatChunks(chunks) = history_entries

\* C1 witness: a plan of at least three chunks, one of them an oversized
\* singleton and one of them holding several entries.
C1_Witness ==
    /\ ChunksPlanned
    /\ Len(chunks) >= 3
    /\ \E i \in 1..Len(chunks) : Flagged(i)
    /\ \E i \in 1..Len(chunks) : Len(ChunkEntries(i)) >= 2

\* C2: for a positive limit, a chunk without the warning has a token sum of at
\* most the limit; a chunk with the warning holds exactly one entry, whose own
\* estimate exceeds the limit; and every entry whose estimate exceeds the limit
\* is alone in a chunk with the warning.
C2_ChunkSizeBound ==
    (ChunksPlanned /\ max_tokens > 0) =>
        /\ \A i \in 1..Len(chunks) :
              IF Flagged(i)
              THEN /\ Len(ChunkEntries(i)) = 1
                   /\ estimate_tokens(ChunkEntries(i)[1]) > max_tokens
              ELSE TokenSum(ChunkEntries(i)) <= max_tokens
        /\ \A k \in 1..Len(history_entries) :
              estimate_tokens(history_entries[k]) > max_tokens =>
                 \E i \in 1..Len(chunks) :
                    Flagged(i) /\ ChunkEntries(i) = <<history_entries[k]>>

\* C2 witness: an oversized singleton next to an unflagged chunk of several
\* entries whose token sum is exactly the limit.
C2_Witness ==
    /\ ChunksPlanned
    /\ \E i \in 1..Len(chunks) : Flagged(i)
    /\ \E i \in 1..Len(chunks) :
          /\ ~Flagged(i)
          /\ Len(ChunkEntries(i)) >= 2
          /\ TokenSum(ChunkEntries(i)) = max_tokens

\* C3: when main rejects the chunk-size specifier, no read of the data source
\* has happened before the rejection.
C3_RejectedBeforeExtraction ==
    exit_reason = "invalid_chunk_size" => ~db_read

SummaryIsAllZero(s) ==
    /\ {"total_urls", "total_visits", "total_search_terms", "date_range"} \subseteq DOMAIN s
    /\ s.total_urls = 0
    /\ s.total_visits = 0
    /\ s.total_search_terms = 0
    /\ s.date_range.oldest = << >>
    /\ s.date_range.newest = << >>

\* C4: with zero url records there are zero entries, chunk_history returns zero
\* chunks, and the summary has zero entry, visit and search-term counts and
\* empty oldest and newest strings.
C4_EmptyInput ==
    (urls_data = << >> /\ Summarized) =>
        /\ history_entries = << >>
        /\ (ChunksPlanned => chunks = << >>)
        /\ SummaryIsAllZero(summary)

\* The artifacts the run has to write in its output mode.
ArtifactsOfRun ==
    IF ChunkingRequested
    THEN {ChunkFile(ChunkInfo(i).chunk_id) : i \in 1..Len(chunks)}
    ELSE {JsonFile, CsvFile, StatisticsFile}

\* C5: in a run in which the write of an artifact failed, the write of every
\* artifact of the run has been attempted by the time main ends.
C5_EveryWriteAttempted ==
    (pc = "exited" /\ failed # {}) => attempted = ArtifactsOfRun

\* Where the row of url id sits in the url stream.
SourcePosition(id) == CHOOSE p \in 1..Len(urls_data) : urls_data[p].id = id

\* C6: after extract_data succeeds, history_entries is in descending order of
\* last_visit_timestamp, and entries of equal timestamp keep the relative order
\* of their rows in the url stream.
C6_SortedStable ==
    Extracted =>
        \A i, j \in 1..Len(history_entries) :
            i < j =>
               /\ history_entries[i].last_visit_timestamp >=
                     history_entries[j].last_visit_timestamp
               /\ (history_entries[i].last_visit_timestamp =
                      history_entries[j].last_visit_timestamp
                   => SourcePosition(history_entries[i].id) <
                         SourcePosition(history_entries[j].id))

\* C6 witness: three entries, two of them with equal timestamps and the third
\* with another one.
C6_Witness ==
    /\ Extracted
    /\ Len(history_entries) >= 3
    /\ \E i, j \in 1..Len(history_entries) :
          /\ i < j
          /\ history_entries[i].last_visit_timestamp =
                history_entries[j].last_visit_timestamp
    /\ \E i, j \in 1..Len(history_entries) :
          history_entries[i].last_visit_timestamp >
             history_entries[j].last_visit_timestamp

VisitRowsOf(id) ==
    LET Owned(v) == v.url = id
    IN  SelectSeq(visits_data, Owned)

TermRowsOf(id) ==
    LET Owned(t) == t.url_id = id
    IN  SelectSeq(search_terms_data, Owned)

\* A visit dict carries the visit row: its time, duration, transition and its
\* referrer, or "" for no referrer.
CarriesVisit(dict, row) ==
    /\ dict.visit_timestamp = row.visit_time
    /\ dict.visit_time = (IF row.visit_time = 0 THEN << >> ELSE <<row.visit_time>>)
    /\ dict.duration = row.visit_duration
    /\ dict.transition = row.transition
    /\ dict.referrer = (IF row.external_referrer_url = None THEN << >>
                        ELSE row.external_referrer_url)

\* The url stream has a row of this id.
InUrlStream(id) == \E p \in 1..Len(urls_data) : urls_data[p].id = id

\* The timestamps of the url rows and of the visit rows of their ids can be
\* converted.
OwnedTimestampsInRange ==
    /\ \A p \in 1..Len(urls_data) : ~TimestampOutOfRange(urls_data[p].last_visit_time)
    /\ \A n \in 1..Len(visits_data) :
          InUrlStream(visits_data[n].url) => ~TimestampOutOfRange(visits_data[n].visit_time)

\* The visits and the search terms of the entries of a successful extraction
\* are the rows of their ids.
EntriesCarryTheirRows ==
    Extracted =>
        \A k \in 1..Len(history_entries) :
           LET entry == history_entries[k]
               vrows == VisitRowsOf(entry.id)
               trows == TermRowsOf(entry.id)
           IN  /\ Len(entry.visits) = Len(vrows)
               /\ \A n \in 1..Len(vrows) : CarriesVisit(entry.visits[n], vrows[n])
               /\ entry.search_terms = [n \in 1..Len(trows) |-> trows[n].term]

\* C7: every entry's visits are exactly the visit rows of its id, in the order of
\* the visit stream, and its search_terms exactly the terms of the rows of its id
\* (both empty when there is none); the rows of an id that is not in the url
\* stream are in no entry and cause no error: with a readable database, and url
\* rows and visit rows of their ids that can be converted, extraction succeeds.
C7_EntryAssembly ==
    /\ EntriesCarryTheirRows
    /\ (db_state = "ok" /\ OwnedTimestampsInRange) => exit_reason # "extract_failed"

\* Extraction has failed on a readable database although only the timestamp of
\* a visit row of an id that is not in the url stream cannot be converted.
OrphanVisitFailsExtraction ==
    /\ db_state = "ok"
    /\ OwnedTimestampsInRange
    /\ exit_reason = "extract_failed"

\* C8: every chunk's total_chunks is the number of chunks returned, and the
\* k-th chunk has chunk_id k.
C8_ChunkOrdinals ==
    ChunksPlanned =>
        \A i \in 1..Len(chunks) :
            /\ ChunkInfo(i).total_chunks = Len(chunks)
            /\ ChunkInfo(i).chunk_id = i

\* C8 witness: at least three chunks, the last one an oversized singleton that
\* follows an unflagged chunk.
C8_Witness ==
    /\ ChunksPlanned
    /\ Len(chunks) >= 3
    /\ Flagged(Len(chunks))
    /\ ~Flagged(Len(chunks) - 1)

\* C9: the exit status of main for an invalid chunk-size specifier is non-zero
\* and differs from the status it exits with when extraction fails.
C9_DistinctExitStatus ==
    exit_reason = "invalid_chunk_size" =>
        exit_code # 0 /\ exit_code # ExitExtractFailed

\* The rules of the claim, in its order: label, domain keywords, title keywords.
CategoryRules ==
    << [label |-> "Development & Tech", domain |-> KwDevelopment, title |-> {}],
       [label |-> "Learning & Education", domain |-> KwLearning, title |-> KwLearningTitle],
       [label |-> "Work & Productivity", domain |-> KwWork, title |-> {}],
       [label |-> "News & Information", domain |-> KwNews, title |-> {}],
       [label |-> "Social Media", domain |-> KwSocial, title |-> {}],
       [label |-> "Shopping", domain |-> KwShopping, title |-> {}],
       [label |-> "Entertainment", domain |-> KwEntertainment, title |-> {}] >>

RuleMatches(rule, domain, title_lower) ==
    \/ \E keyword \in rule.domain : Contains(domain, keyword)
    \/ \E keyword \in rule.title : Contains(title_lower, keyword)

\* C10: _categorize_url returns the label of the first rule, in the order
\* Development & Tech, Learning & Education, Work & Productivity, News &
\* Information, Social Media, Shopping, Entertainment, that matches the
\* lower-cased domain (or, for Learning & Education, the lower-cased title), and
\* "Other" when none matches, for a url and a title that are strings.
C10_FirstMatchWins ==
    (cat_result # "not called" /\ cat_url # None /\ cat_title # None) =>
        LET domain  == Lower(_extract_domain(cat_url))
            matches == {r \in 1..Len(CategoryRules) :
                           RuleMatches(CategoryRules[r], domain, Lower(cat_title))}
        IN  IF matches = {} THEN cat_result = "Other"
            ELSE cat_result =
                    CategoryRules[CHOOSE r \in matches : \A q \in matches : r <= q].label

\* C10 witness: domain shop.buy.com with title "Learn tutorial", which matches
\* the Learning & Education rule and the later Shopping rule.
C10_Witness ==
    /\ cat_url = ShopUrl
    /\ cat_title = LearnTitle
    /\ cat_result = "Learning & Education"

\* The number of "/"-delimited segments the extraction reads: three for a url
\* that begins with http:// or https://, one otherwise.
SegmentsNeeded(url) ==
    IF StartsWith(url, HttpPrefix) \/ StartsWith(url, HttpsPrefix) THEN 3 ELSE 1

\* C11: for a url that is a string, _extract_domain returns "unknown" for the
\* empty url and for a url with fewer "/"-delimited segments than the extraction
\* needs; otherwise the third segment, lower-cased, of a url that begins with
\* http:// or https://, and the first segment, lower-cased, of any other url.
C11_ExtractDomain ==
    (dom_result # None /\ cat_url # None) =>
        LET segments == Split(cat_url, "/")
        IN  IF cat_url = << >> \/ Len(segments) < SegmentsNeeded(cat_url)
            THEN dom_result = Unknown
            ELSE dom_result = Lower(segments[SegmentsNeeded(cat_url)])

\* C12: for a positive limit, whenever a chunk without the warning is
\* immediately followed by another chunk, the first entry of the following chunk
\* is itself above the limit, or the closed chunk's token sum plus that entry's
\* estimate exceeds the limit: a chunk is closed only when it must be.
C12_ClosedOnlyWhenNeeded ==
    (ChunksPlanned /\ max_tokens > 0) =>
        \A i \in 1..(Len(chunks) - 1) :
            ~Flagged(i) =>
               LET first == ChunkEntries(i + 1)[1]
               IN  \/ estimate_tokens(first) > max_tokens
                   \/ TokenSum(ChunkEntries(i)) + estimate_tokens(first) > max_tokens

\* C12 witness: three entries of one estimate, with a limit of at least twice
\* and less than three times that estimate, planned as [e1, e2] (twice the
\* estimate) and [e3] (the estimate).
C12_Witness ==
    /\ ChunksPlanned
    /\ Len(history_entries) = 3
    /\ \E tokens \in {estimate_tokens(history_entries[1])} :
          /\ \A k \in 1..3 : estimate_tokens(history_entries[k]) = tokens
          /\ 2 * tokens <= max_tokens
          /\ max_tokens < 3 * tokens
          /\ Len(chunks) = 2
          /\ ChunkEntries(1) = SubSeq(history_entries, 1, 2)
          /\ ChunkInfo(1).estimated_tokens = 2 * tokens
          /\ ChunkEntries(2) = <<history_entries[3]>>
          /\ ChunkInfo(2).estimated_tokens = tokens

====
